---- MODULE Spec2Model ----
(***************************************************************************)
(* A model of the NVDA add-on "Enchanced Speech History"                   *)
(* (globalPlugins/enchancedSpeechHistory.py): the bounded speech history   *)
(* with its review cursor, the recording accumulator, the history dialog   *)
(* with its search index, and the update check and download with their     *)
(* worker threads.                                                         *)
(*                                                                         *)
(* Text is a sequence of one-character strings, so that joining, trimming, *)
(* lower-casing and substring search are computed and not assumed.         *)
(***************************************************************************)
EXTENDS Integers, Sequences, FiniteSets, TLC

\* ------------------------------------------------------------------ bounds

\* Largest value of the configuration key maxHistoryLength that is explored.
MaxCapacity == 3
\* Number of speech sequences accepted for the history in one run.
MaxPushes == 4
\* Calls of append_to_history that may be pending in the event queue.
MaxQueue == 2
\* For the runs of the dialog: the value of maxHistoryLength, and the other
\* two bounds.
DialogCapacity == 2
DialogMaxPushes == 3
DialogMaxQueue == 1
\* For the runs of the update check: how many worker threads may exist at a
\* time, and how many prompts may be open at a time.
MaxThreads == 3
MaxPrompts == 2

\* --------------------------------------------------------- program constants

MIN_HISTORY_ENTRIES == 1
DEFAULT_BEEP_FREQUENCY == 400
DEFAULT_BEEP_DURATION == 20
BOUNDARY_BEEP_FREQUENCY == 200
BOUNDARY_BEEP_DURATION == 100
\* tones.beep(hz, length, left=50, right=50): the volume of a channel when the
\* caller gives none.
DefaultBeepVolume == 50
\* item[0:100]: the number of characters of an item the list control shows.
ListItemChars == 100

POST_COPY_NOTHING == "nothing"
POST_COPY_BEEP == "beep"
POST_COPY_SPEAK == "speak"
POST_COPY_BOTH == "speakAndBeep"
PostCopyActions == {POST_COPY_NOTHING, POST_COPY_BEEP, POST_COPY_SPEAK, POST_COPY_BOTH}

\* speechViewer.SPEECH_ITEM_SEPARATOR of the host: two spaces.
SPEECH_ITEM_SEPARATOR == <<" ", " ">>
\* The separator of '\n'.join(...).
NEWLINE == <<"\n">>

\* -------------------------------------------------------------------- text

Min(a, b) == IF a < b THEN a ELSE b
Max(a, b) == IF a > b THEN a ELSE b

\* str.isspace() on one character.
IsSpace(c) == c \in {" ", "\n"}

\* str.lstrip()
RECURSIVE lstrip(_)
lstrip(t) == IF t # <<>> /\ IsSpace(Head(t)) THEN lstrip(Tail(t)) ELSE t

\* str.rstrip()
RECURSIVE rstrip(_)
rstrip(t) ==
    IF t # <<>> /\ IsSpace(t[Len(t)]) THEN rstrip(SubSeq(t, 1, Len(t) - 1)) ELSE t

\* str.strip()
strip(t) == rstrip(lstrip(t))

\* str.lower() on one character of the alphabet of the model.
LowerChar(c) == IF c = "A" THEN "a" ELSE IF c = "B" THEN "b" ELSE c

\* str.lower()
lower(t) == [i \in 1..Len(t) |-> LowerChar(t[i])]

\* needle in hay, for strings.
Contains(needle, hay) ==
    \E i \in 0..(Len(hay) - Len(needle)) : SubSeq(hay, i + 1, i + Len(needle)) = needle

\* sep.join(items)
RECURSIVE join(_, _)
join(sep, items) ==
    IF items = <<>> THEN <<>>
    ELSE IF Len(items) = 1 THEN items[1]
    ELSE items[1] \o sep \o join(sep, Tail(items))

\* ----------------------------------------------------------- speech sequences

\* An item of a speech sequence: a str, a FocusLossCancellableSpeechCommand, or
\* any other speech command.
Str(t) == [kind |-> "str", text |-> t]
FocusLossCancellableSpeechCommand == [kind |-> "focusLossCancellable", text |-> <<>>]
OtherCommand == [kind |-> "command", text |-> <<>>]

IsStr(x) == x.kind = "str"
IsFocusLossCancellable(x) == x.kind = "focusLossCancellable"

\* The speech sequences the host speaks in the model: plain text, text mixed
\* with commands, whitespace only, and no text at all.
SeqPlain == <<Str(<<"a">>)>>
SeqMixed ==
    <<FocusLossCancellableSpeechCommand, Str(<<" ", "B">>), OtherCommand, Str(<<"a">>)>>
SeqBlank == <<OtherCommand, Str(<<" ">>)>>
SeqNoText == <<FocusLossCancellableSpeechCommand>>
SpeechSequences == {SeqPlain, SeqMixed, SeqBlank, SeqNoText}

\* getSequenceText: the str items joined by the separator, in order.
TextItems(sequence) ==
    LET strs == SelectSeq(sequence, IsStr) IN [i \in 1..Len(strs) |-> strs[i].text]

getSequenceText(sequence) == join(SPEECH_ITEM_SEPARATOR, TextItems(sequence))

\* _speakMessage(message) speaks the sequence [message]; a message of the
\* add-on is one item of text.
Message(m) == <<Str(<<m>>)>>

\* ------------------------------------------------------------------- state

VARIABLES
    \* GlobalPlugin
    maxHistoryLength,   \* config.conf[...]['maxHistoryLength'], read once by __init__
    _history,           \* deque(maxlen=maxHistoryLength); position 0 is _history[1]
    history_pos,        \* the review cursor, counted from 0
    _recorded,          \* the texts accumulated while recording
    _recording,
    eventQueue,         \* the arguments of the queued calls of append_to_history
    out,                \* what the last handler spoke, beeped, copied and produced
    \* history variables, written by no handler's code
    pushLog,            \* the sequences append_to_history was called with since
                        \* __init__ or the last clearHistory, in order
    startedAt,          \* while recording: how many of them came before the
                        \* recording started; 0 otherwise
    \* HistoryDialog
    dialogOpen,         \* HistoryDialog._instance() is not None
    history,            \* the snapshot of the texts of _history
    searchHistory,      \* the filtered view
    searches,           \* query -> focused index when the query was left
    curSearch,
    selection,
    historyList,        \* the rows of the list control
    focusedItem,        \* historyList.GetFocusedItem(); -1 when no row has focus
    currentTextElement, \* the value of the read-only text control
    \* the update check and download of GlobalPlugin
    _updateCheckInProgress,
    _updateDownloadInProgress,
    threads,            \* the worker threads that were started and have not yet
                        \* called wx.CallAfter, in the order of their start
    pendingCalls,       \* the calls posted with wx.CallAfter and not yet made
    messageBoxes,       \* the open prompts of gui.messageBox, innermost last
    uiMessages          \* the texts the last update handler gave to ui.message

pluginVars == <<maxHistoryLength, _history, history_pos, _recorded, _recording,
                eventQueue>>
logVars == <<pushLog, startedAt>>
dialogVars == <<dialogOpen, history, searchHistory, searches, curSearch, selection,
                historyList, focusedItem, currentTextElement>>
updateVars == <<_updateCheckInProgress, _updateDownloadInProgress, threads,
                pendingCalls, messageBoxes, uiMessages>>
vars == <<pluginVars, out, logVars, dialogVars, updateVars>>

\* The outputs of one handler, with the handler's name: the sequences it passed to the host's speak, in
\* order; its beeps; the end of the history it signalled, if any; the texts it
\* wrote to the clipboard with api.copyToClip; and, for script_stopRecording,
\* the recorded text.
Out(op, spoken, beeps, boundary, copied, recordedText) ==
    [op |-> op, spoken |-> spoken, beeps |-> beeps, boundary |-> boundary,
     copied |-> copied, recordedText |-> recordedText]

\* A handler that speaks, beeps, copies and produces nothing.
Silent(op) == Out(op, <<>>, <<>>, "none", <<>>, <<>>)

\* tones.beep(hz, length, left, right)
Beep(hz, length, left, right) ==
    [hz |-> hz, length |-> length, left |-> left, right |-> right]

\* The value None.
None == "None"

\* A thread started on _checkForUpdatesWorker with args=(manual,).
CheckWorker(manual) ==
    [target |-> "_checkForUpdatesWorker", manual |-> manual,
     downloadUrl |-> None, latestVersion |-> None]

\* A thread started on _downloadAndInstallUpdateWorker with
\* args=(downloadUrl, latestVersion).
DownloadWorker(downloadUrl, latestVersion) ==
    [target |-> "_downloadAndInstallUpdateWorker", manual |-> FALSE,
     downloadUrl |-> downloadUrl, latestVersion |-> latestVersion]

\* GlobalPlugin.__init__ and, for the dialog, the state before it is first
\* opened. startupChecks holds the values the configuration may have for
\* checkForUpdatesOnStartup; with TRUE __init__ ends with
\* checkForUpdates(manual=False), which finds no check in progress.
Constructed(capacities, startupChecks) ==
    /\ \E checkForUpdatesOnStartup \in startupChecks :
          /\ _updateCheckInProgress = checkForUpdatesOnStartup
          /\ threads = IF checkForUpdatesOnStartup THEN <<CheckWorker(FALSE)>> ELSE <<>>
    /\ _updateDownloadInProgress = FALSE
    /\ pendingCalls = <<>>
    /\ messageBoxes = <<>>
    /\ uiMessages = <<>>
    /\ maxHistoryLength \in capacities
    /\ _history = <<>>
    /\ _recorded = <<>>
    /\ _recording = FALSE
    /\ history_pos = 0
    /\ eventQueue = <<>>
    /\ out = Silent("__init__")
    /\ pushLog = <<>>
    /\ startedAt = 0
    /\ dialogOpen = FALSE
    /\ history = <<>>
    /\ searchHistory = <<>>
    /\ searches = <<>>
    /\ curSearch = <<>>
    /\ selection = {}
    /\ historyList = <<>>
    /\ focusedItem = -1
    /\ currentTextElement = <<>>

\* --------------------------------------------------------------- GlobalPlugin

\* _performPostCopyFeedback: the beeps and the messages of the configured action.
\* The beep's frequency and duration are the configured ones, here the defaults.
PostCopyBeeps(postCopyAction) ==
    IF postCopyAction \in {POST_COPY_BEEP, POST_COPY_BOTH}
    THEN <<Beep(DEFAULT_BEEP_FREQUENCY, DEFAULT_BEEP_DURATION,
                DefaultBeepVolume, DefaultBeepVolume)>>
    ELSE <<>>

PostCopySpoken(postCopyAction) ==
    IF postCopyAction \in {POST_COPY_SPEAK, POST_COPY_BOTH}
    THEN <<Message("Copied")>>
    ELSE <<>>

\* _beepHistoryBoundary(atBeginning): the tone, panned to one side when the
\* configuration asks for it.
BoundaryBeep(atBeginning, beepBoundaryPanning) ==
    IF beepBoundaryPanning
    THEN IF atBeginning
         THEN Beep(BOUNDARY_BEEP_FREQUENCY, BOUNDARY_BEEP_DURATION, 0, 100)
         ELSE Beep(BOUNDARY_BEEP_FREQUENCY, BOUNDARY_BEEP_DURATION, 100, 0)
    ELSE Beep(BOUNDARY_BEEP_FREQUENCY, BOUNDARY_BEEP_DURATION,
              DefaultBeepVolume, DefaultBeepVolume)

\* The end of the history a boundary beep stands for: atBeginning is the
\* newest end (position 0), the other one the oldest end.
BoundaryEnd(atBeginning) == IF atBeginning THEN "newest" ELSE "oldest"

\* A slip in appendleft: deque.append, which puts the new item at the back and
\* drops the item at the front of a full deque.
appendleft_atBack(dq, x, maxlen) ==
    LET longer == dq \o <<x>>
    IN  IF Len(longer) > maxlen THEN SubSeq(longer, 2, maxlen + 1) ELSE longer

\* deque.appendleft on a deque(maxlen=maxlen): the new item goes to the front,
\* and a full deque drops the item at its other end.
appendleft(dq, x, maxlen) ==
    LET longer == <<x>> \o dq
    IN  IF Len(longer) > maxlen THEN SubSeq(longer, 1, maxlen) ELSE longer

\* The sequence without its FocusLossCancellableSpeechCommand items.
WithoutFocusLossCommands(seq) ==
    SelectSeq(seq, LAMBDA command : ~IsFocusLossCancellable(command))

\* A slip in RecordedAfterAppend: the text is put in front, as in the history.
RecordedAfterAppend_newestFirst(recorded, recording, seq) ==
    IF recording THEN <<getSequenceText(seq)>> \o recorded ELSE recorded

\* A slip in RecordedAfterAppend: the text is kept whether or not a recording
\* is running.
RecordedAfterAppend_always(recorded, recording, seq) ==
    Append(recorded, getSequenceText(seq))

\* The accumulator after append_to_history stored seq.
RecordedAfterAppend(recorded, recording, seq) ==
    IF recording THEN Append(recorded, getSequenceText(seq)) ELSE recorded

\* A slip in HasText: the text is not stripped before it is tested.
HasText_unstripped(text) == text # <<>>

\* The test of mySpeak on the text of a sequence: text.strip() is not empty.
HasText(text) == strip(text) # <<>>

\* mySpeak(sequence): the host's speak runs first; a sequence with text that
\* is not only whitespace is queued for append_to_history.
mySpeak(sequence) ==
    /\ out' = Out("mySpeak", <<sequence>>, <<>>, "none", <<>>, <<>>)
    /\ eventQueue' = IF HasText(getSequenceText(sequence))
                     THEN Append(eventQueue, sequence)
                     ELSE eventQueue
    /\ UNCHANGED <<updateVars, maxHistoryLength, _history, history_pos, _recorded, _recording,
                   logVars, dialogVars>>

\* append_to_history(seq), run from the event queue.
append_to_history ==
    /\ eventQueue # <<>>
    /\ LET seq == WithoutFocusLossCommands(Head(eventQueue))
       IN  /\ _history' = appendleft(_history, seq, maxHistoryLength)
           /\ history_pos' = 0
           /\ _recorded' = RecordedAfterAppend(_recorded, _recording, seq)
    /\ eventQueue' = Tail(eventQueue)
    /\ pushLog' = Append(pushLog, Head(eventQueue))
    /\ out' = Silent("append_to_history")
    /\ UNCHANGED <<updateVars, maxHistoryLength, _recording, startedAt, dialogVars>>

\* The text script_copyLast copies, trimmed as configured.
CopyText(text, trimWhitespaceFromStart, trimWhitespaceFromEnd) ==
    LET t1 == IF trimWhitespaceFromStart THEN lstrip(text) ELSE text
    IN  IF trimWhitespaceFromEnd THEN rstrip(t1) ELSE t1

\* A slip in NoHistoryItems: the empty history is treated as a boundary of the
\* review, with its beep.
NoHistoryItems_boundary(op) ==
    Out(op, <<Message("No history items.")>>, <<BoundaryBeep(TRUE, FALSE)>>,
        BoundaryEnd(TRUE), <<>>, <<>>)

\* What a script does on an empty history before it returns:
\* self._speakMessage(_('No history items.')).
NoHistoryItems(op) ==
    Out(op, <<Message("No history items.")>>, <<>>, "none", <<>>, <<>>)

\* script_copyLast. copied is what api.copyToClip returns: whether the text
\* reached the clipboard.
script_copyLast(trimStart, trimEnd, postCopyAction, copied) ==
    /\ IF _history = <<>>
       THEN out' = NoHistoryItems("script_copyLast")
       ELSE LET text == CopyText(getSequenceText(_history[history_pos + 1]),
                                 trimStart, trimEnd)
            IN  IF copied
                THEN out' = Out("script_copyLast", PostCopySpoken(postCopyAction),
                                PostCopyBeeps(postCopyAction), "none", <<text>>, <<>>)
                ELSE out' = Silent("script_copyLast")
    /\ UNCHANGED <<updateVars, maxHistoryLength, _history, history_pos, _recorded, _recording,
                   eventQueue, logVars, dialogVars>>

\* A slip in PastOldest: the boundary is taken one item early.
PastOldest_early(pos, n) == pos + 1 > n - 2

\* Whether script_prevString, at cursor pos of a history of n items, has run
\* past the oldest item.
PastOldest(pos, n) == pos + 1 > n - 1

\* Whether script_nextString, at cursor pos, has run past the newest item.
PastNewest(pos) == pos - 1 < 0

\* A slip in ReviewSpoken: the newest item is spoken, wherever the cursor is.
ReviewSpoken_newest(pos) == <<_history[1]>>

\* What script_prevString and script_nextString speak last: the item at the
\* cursor they end on.
ReviewSpoken(pos) == <<_history[pos + 1]>>

\* script_prevString: one item towards the oldest.
script_prevString(beepBoundaryPanning) ==
    /\ IF _history = <<>>
       THEN /\ out' = NoHistoryItems("script_prevString")
            /\ UNCHANGED history_pos
       ELSE IF PastOldest(history_pos, Len(_history))
            THEN /\ history_pos' = (history_pos + 1) - 1
                 /\ out' = Out("script_prevString", ReviewSpoken(history_pos'),
                               <<BoundaryBeep(FALSE, beepBoundaryPanning)>>,
                               BoundaryEnd(FALSE), <<>>, <<>>)
            ELSE /\ history_pos' = history_pos + 1
                 /\ out' = Out("script_prevString", ReviewSpoken(history_pos'),
                               <<>>, "none", <<>>, <<>>)
    /\ UNCHANGED <<updateVars, maxHistoryLength, _history, _recorded, _recording, eventQueue,
                   logVars, dialogVars>>

\* script_nextString: one item towards the newest.
script_nextString(beepBoundaryPanning) ==
    /\ IF _history = <<>>
       THEN /\ out' = NoHistoryItems("script_nextString")
            /\ UNCHANGED history_pos
       ELSE IF PastNewest(history_pos)
            THEN /\ history_pos' = (history_pos - 1) + 1
                 /\ out' = Out("script_nextString", ReviewSpoken(history_pos'),
                               <<BoundaryBeep(TRUE, beepBoundaryPanning)>>,
                               BoundaryEnd(TRUE), <<>>, <<>>)
            ELSE /\ history_pos' = history_pos - 1
                 /\ out' = Out("script_nextString", ReviewSpoken(history_pos'),
                               <<>>, "none", <<>>, <<>>)
    /\ UNCHANGED <<updateVars, maxHistoryLength, _history, _recorded, _recording, eventQueue,
                   logVars, dialogVars>>

\* script_startRecording
script_startRecording ==
    /\ IF _recording
       THEN /\ out' = Out("script_startRecording", <<Message("Already recording speech")>>, <<>>, "none", <<>>, <<>>)
            /\ UNCHANGED <<_recording, startedAt>>
       ELSE /\ out' = Out("script_startRecording", <<Message("Started recording speech")>>, <<>>, "none", <<>>, <<>>)
            /\ _recording' = TRUE
            /\ startedAt' = Len(pushLog)
    /\ UNCHANGED <<updateVars, maxHistoryLength, _history, history_pos, _recorded, eventQueue,
                   pushLog, dialogVars>>

\* The text script_stopRecording makes of the accumulator.
RecordedText(recorded) == join(NEWLINE, recorded)

\* script_stopRecording. The recorded text goes to the clipboard unless it is
\* empty.
script_stopRecording ==
    /\ IF ~_recording
       THEN /\ out' = Out("script_stopRecording", <<Message("Not currently recording speech")>>,
                          <<>>, "none", <<>>, <<>>)
            /\ UNCHANGED <<_recording, _recorded, startedAt>>
       ELSE LET recordedText == RecordedText(_recorded)
            IN  /\ _recording' = FALSE
                /\ startedAt' = 0
                /\ _recorded' = <<>>
                /\ IF recordedText # <<>>
                   THEN out' = Out("script_stopRecording", <<Message("Recorded speech copied to clipboard")>>,
                                   <<>>, "none", <<recordedText>>, recordedText)
                   ELSE out' = Out("script_stopRecording", <<Message("No recorded speech to copy")>>,
                                   <<>>, "none", <<>>, recordedText)
    /\ UNCHANGED <<updateVars, maxHistoryLength, _history, history_pos, eventQueue, pushLog,
                   dialogVars>>

\* A slip in clearHistory: the cursor is left where it was.
clearHistory_keepsCursor ==
    /\ _history' = <<>>
    /\ UNCHANGED history_pos
    /\ _recorded' = <<>>
    /\ pushLog' = <<>>
    /\ startedAt' = 0

\* A slip in clearHistory: the accumulator is left as it was.
clearHistory_keepsRecorded ==
    /\ _history' = <<>>
    /\ history_pos' = 0
    /\ UNCHANGED _recorded
    /\ pushLog' = <<>>
    /\ startedAt' = 0

\* clearHistory
clearHistory ==
    /\ _history' = <<>>
    /\ history_pos' = 0
    /\ _recorded' = <<>>
    /\ pushLog' = <<>>
    /\ startedAt' = 0

\* -------------------------------------------------------------- HistoryDialog

\* The dict of a new dialog, {"": 0}.
NewSearches == [q \in {<<>>} |-> 0]

\* searches.get(text, 0)
SearchesGet(srch, text) == IF text \in DOMAIN srch THEN srch[text] ELSE 0

\* searches[key] = index
SearchesSet(srch, key, index) ==
    [q \in (DOMAIN srch) \cup {key} |-> IF q = key THEN index ELSE srch[q]]

\* The row doSearch appends to the list control for an item: item[0:100].
ListRow(item) == SubSeq(item, 1, Min(Len(item), ListItemChars))

\* A slip in Matches: the item is compared as it is, not lower-cased.
Matches_caseSensitive(text, item) == Contains(text, item)

\* Whether doSearch keeps an item of the snapshot for the query text.
Matches(text, item) == Contains(text, lower(item))

\* A slip in FilteredView: the items are taken from the live history of the
\* add-on, not from the snapshot.
FilteredView_live(hist, text) ==
    LET live == [i \in 1..Len(_history) |-> getSequenceText(_history[i])]
    IN  IF text = <<>> THEN live
        ELSE SelectSeq(live, LAMBDA item : Matches(text, item))

\* The filtered view doSearch computes from the snapshot.
FilteredView(hist, text) ==
    IF text = <<>> THEN hist
    ELSE SelectSeq(hist, LAMBDA item : Matches(text, item))

\* A slip in RestoredIndex: the remembered row is ignored.
RestoredIndex_first(srch, text, n) == 0

\* The row doSearch selects and focuses in a view of n > 0 rows.
RestoredIndex(srch, text, n) ==
    LET index == SearchesGet(srch, text)
    IN  Max(IF index >= n THEN n - 1 ELSE index, 0)

\* A slip in sorted: the largest index comes first.
RECURSIVE sorted_descending(_)
sorted_descending(items) ==
    IF items = {} THEN <<>>
    ELSE LET most == CHOOSE i \in items : \A j \in items : i >= j
         IN  <<most>> \o sorted_descending(items \ {most})

\* sorted(items) for a set of integers.
RECURSIVE sorted(_)
sorted(items) ==
    IF items = {} THEN <<>>
    ELSE LET least == CHOOSE i \in items : \A j \in items : i <= j
         IN  <<least>> \o sorted(items \ {least})

\* itemsToString(items) on the view: the rows of the indices that are below the
\* length of the view, joined by newlines, in the order of items.
itemsToString(view, items) ==
    LET kept == SelectSeq(items, LAMBDA index : index < Len(view))
    IN  join(NEWLINE, [k \in 1..Len(kept) |-> view[kept[k] + 1]])

\* The text updateSelection puts into the text control.
SelectionText(view, sel) == itemsToString(view, sorted(sel))

\* doSearch(text) with self.history = hist and self.searches = srch.
\* historyList.Select(index, on=1) is a call into the toolkit; selectEvent says
\* whether the toolkit answers it with the item-selected event, whose handler
\* is onSelect.
doSearch(hist, srch, text, selectEvent) ==
    LET view == FilteredView(hist, text)
    IN  /\ searchHistory' = view
        /\ historyList' = [i \in 1..Len(view) |-> ListRow(view[i])]
        /\ IF view # <<>>
           THEN LET index == RestoredIndex(srch, text, Len(view))
                IN  /\ focusedItem' = index
                    /\ selection' = IF selectEvent THEN {index} ELSE {}
                    /\ currentTextElement' = SelectionText(view, selection')
           ELSE /\ focusedItem' = -1
                /\ selection' = {}
                /\ currentTextElement' = <<>>

\* The snapshot updateHistory takes of the live history.
Snapshot(hist) == [i \in 1..Len(hist) |-> getSequenceText(hist[i])]

\* updateHistory
updateHistory(srch, selectEvent) ==
    /\ history' = Snapshot(_history)
    /\ doSearch(history', srch, curSearch, selectEvent)

\* script_showHistoryDialog: HistoryDialog(gui.mainFrame, self). A dialog that
\* is open is reused and refreshed; otherwise a new one is built.
script_showHistoryDialog(selectEvent) ==
    /\ IF dialogOpen
       THEN /\ updateHistory(searches, selectEvent)
            /\ UNCHANGED <<dialogOpen, searches, curSearch>>
       ELSE /\ dialogOpen' = TRUE
            /\ searches' = NewSearches
            /\ curSearch' = <<>>
            /\ history' = Snapshot(_history)
            /\ doSearch(history', NewSearches, <<>>, selectEvent)
    /\ out' = Silent("script_showHistoryDialog")
    /\ UNCHANGED <<updateVars, pluginVars, logVars>>

\* The dialog after Destroy(): no instance is left, and the next one starts
\* from __init__.
DialogDestroyed ==
    /\ dialogOpen' = FALSE
    /\ history' = <<>>
    /\ searchHistory' = <<>>
    /\ searches' = <<>>
    /\ curSearch' = <<>>
    /\ selection' = {}
    /\ historyList' = <<>>
    /\ focusedItem' = -1
    /\ currentTextElement' = <<>>

\* onSearch, with value what searchTextField.GetValue() returns: the content
\* of the search field, which the user edits.
onSearch(value, selectEvent) ==
    /\ dialogOpen
    /\ LET text == lower(value)
       IN  IF text = curSearch
           THEN UNCHANGED <<history, searchHistory, searches, curSearch, selection,
                            historyList, focusedItem, currentTextElement>>
           ELSE LET index == IF focusedItem < 0 THEN 0 ELSE focusedItem
                IN  /\ searches' = SearchesSet(searches, curSearch, index)
                    /\ curSearch' = text
                    /\ doSearch(history, searches', text, selectEvent)
                    /\ UNCHANGED history
    /\ out' = Silent("onSearch")
    /\ UNCHANGED <<updateVars, dialogOpen, pluginVars, logVars>>

\* The user moves the focus of the list control to a row.
focusRow(index) ==
    /\ dialogOpen
    /\ index \in 0..(Len(historyList) - 1)
    /\ focusedItem' = index
    /\ out' = Silent("focusRow")
    /\ UNCHANGED <<updateVars, dialogOpen, history, searchHistory, searches, curSearch, selection,
                   historyList, currentTextElement, pluginVars,
                   logVars>>

\* onSelect, for the item-selected event whose GetIndex() is index. The handler
\* does not compare the index with the list.
onSelect(index) ==
    /\ dialogOpen
    /\ selection' = selection \cup {index}
    /\ currentTextElement' = SelectionText(searchHistory, selection')
    /\ out' = Silent("onSelect")
    /\ UNCHANGED <<updateVars, dialogOpen, history, searchHistory, searches, curSearch,
                   historyList, focusedItem, pluginVars, logVars>>

\* onDeselect, for the item-deselected event whose GetIndex() is index.
onDeselect(index) ==
    /\ dialogOpen
    /\ selection' = selection \ {index}
    /\ currentTextElement' = SelectionText(searchHistory, selection')
    /\ out' = Silent("onDeselect")
    /\ UNCHANGED <<updateVars, dialogOpen, history, searchHistory, searches, curSearch,
                   historyList, focusedItem, pluginVars, logVars>>

\* What a copy handler of the dialog does with text.
DialogCopy(op, text, postCopyAction, copied) ==
    /\ dialogOpen
    /\ IF text # <<>> /\ copied
       THEN out' = Out(op, PostCopySpoken(postCopyAction),
                       PostCopyBeeps(postCopyAction), "none", <<text>>, <<>>)
       ELSE out' = Silent(op)
    /\ UNCHANGED <<updateVars, pluginVars, logVars, dialogVars>>

\* onCopy
onCopy(postCopyAction, copied) ==
    DialogCopy("onCopy", currentTextElement, postCopyAction, copied)

\* range(0, n) as a list.
Range(n) == [k \in 1..n |-> k - 1]

\* onCopyAll
onCopyAll(postCopyAction, copied) ==
    DialogCopy("onCopyAll", itemsToString(searchHistory, Range(Len(searchHistory))),
               postCopyAction, copied)

\* onClear: clearHistory, then Close(), whose close event runs onClose.
onClear ==
    /\ dialogOpen
    /\ clearHistory
    /\ DialogDestroyed
    /\ out' = Silent("onClear")
    /\ UNCHANGED <<updateVars, maxHistoryLength, _recording, eventQueue>>

\* onClose
onClose ==
    /\ dialogOpen
    /\ DialogDestroyed
    /\ out' = Silent("onClose")
    /\ UNCHANGED <<updateVars, pluginVars, logVars>>

\* onRefresh
onRefresh(selectEvent) ==
    /\ dialogOpen
    /\ updateHistory(searches, selectEvent)
    /\ out' = Silent("onRefresh")
    /\ UNCHANGED <<updateVars, dialogOpen, searches, curSearch, pluginVars, logVars>>

\* ---------------------------------------------- update check and download

\* Whether Python takes a value, None or a string, for true.
Truthy(value) == value # None /\ value # ""

\* seq without its i-th element.
RemoveAt(seq, i) == SubSeq(seq, 1, i - 1) \o SubSeq(seq, i + 1, Len(seq))

\* A call posted with wx.CallAfter, with the arguments of both callbacks.
PostedCall(fn, manual, latestVersion, downloadUrl, isNewVersion, errorMessage, downloadedPath) ==
    [fn |-> fn, manual |-> manual, latestVersion |-> latestVersion,
     downloadUrl |-> downloadUrl, isNewVersion |-> isNewVersion,
     errorMessage |-> errorMessage, downloadedPath |-> downloadedPath]

\* What the try block of _checkForUpdatesWorker can leave in its variables:
\* a release with or without an installable package, newer or not, or an
\* exception of _fetchLatestReleaseInfo, whose str() may be empty.
CheckOutcomes ==
    {[latestVersion |-> "v2", downloadUrl |-> url, isNewVersion |-> newer,
      errorMessage |-> None] : url \in {None, "url"}, newer \in BOOLEAN}
    \cup {[latestVersion |-> None, downloadUrl |-> None, isNewVersion |-> FALSE,
           errorMessage |-> message] : message \in {"", "URLError"}}

\* What the try block of _downloadAndInstallUpdateWorker can leave: the path
\* of the written package, or an exception before or after the path was set.
DownloadOutcomes ==
    {[downloadedPath |-> "path", errorMessage |-> None]}
    \cup {[downloadedPath |-> path, errorMessage |-> message] :
              path \in {None, "path"}, message \in {"", "URLError"}}

\* A slip in checkForUpdates: the flag is set, but not looked at first.
checkForUpdates_unguarded(manual) ==
    /\ _updateCheckInProgress' = TRUE
    /\ threads' = Append(threads, CheckWorker(manual))
    /\ uiMessages' = <<>>
    /\ out' = Silent("checkForUpdates")
    /\ UNCHANGED <<_updateDownloadInProgress, pendingCalls, messageBoxes, pluginVars,
                   logVars, dialogVars>>

\* checkForUpdates(manual)
checkForUpdates(manual) ==
    /\ IF _updateCheckInProgress
       THEN /\ uiMessages' = IF manual THEN <<"update check is already in progress">>
                                       ELSE <<>>
            /\ UNCHANGED <<_updateCheckInProgress, threads>>
       ELSE /\ _updateCheckInProgress' = TRUE
            /\ threads' = Append(threads, CheckWorker(manual))
            /\ uiMessages' = <<>>
    /\ out' = Silent("checkForUpdates")
    /\ UNCHANGED <<_updateDownloadInProgress, pendingCalls, messageBoxes, pluginVars,
                   logVars, dialogVars>>

\* SpeechHistorySettingsPanel.onCheckForUpdatesButton, with the add-on loaded.
onCheckForUpdatesButton == checkForUpdates(TRUE)

\* A slip in _checkForUpdatesWorker: after an exception the thread ends
\* without its wx.CallAfter.
_checkForUpdatesWorker_silentOnError(i, outcome) ==
    /\ threads[i].target = "_checkForUpdatesWorker"
    /\ threads' = RemoveAt(threads, i)
    /\ pendingCalls' =
          IF outcome.errorMessage # None THEN pendingCalls
          ELSE Append(pendingCalls,
                  PostedCall("_onUpdateCheckComplete", threads[i].manual,
                             outcome.latestVersion, outcome.downloadUrl,
                             outcome.isNewVersion, outcome.errorMessage, None))
    /\ UNCHANGED <<_updateCheckInProgress, _updateDownloadInProgress, messageBoxes,
                   uiMessages, out, pluginVars, logVars, dialogVars>>

\* _checkForUpdatesWorker in the i-th thread, with what its try block left.
\* The thread ends with its wx.CallAfter.
_checkForUpdatesWorker(i, outcome) ==
    /\ threads[i].target = "_checkForUpdatesWorker"
    /\ threads' = RemoveAt(threads, i)
    /\ pendingCalls' = Append(pendingCalls,
           PostedCall("_onUpdateCheckComplete", threads[i].manual, outcome.latestVersion,
                      outcome.downloadUrl, outcome.isNewVersion, outcome.errorMessage,
                      None))
    /\ UNCHANGED <<_updateCheckInProgress, _updateDownloadInProgress, messageBoxes,
                   uiMessages, out, pluginVars, logVars, dialogVars>>

\* _onUpdateCheckComplete, called by the toolkit with the arguments posted
\* first, up to the return of gui.messageBox: the prompt runs the toolkit's
\* event loop until the user answers.
_onUpdateCheckComplete ==
    /\ pendingCalls # <<>>
    /\ Head(pendingCalls).fn = "_onUpdateCheckComplete"
    /\ LET call == Head(pendingCalls)
       IN  /\ _updateCheckInProgress' = FALSE
           /\ IF Truthy(call.errorMessage)
              THEN /\ uiMessages' = IF call.manual THEN <<"Could not check for updates">>
                                                   ELSE <<>>
                   /\ UNCHANGED messageBoxes
              ELSE IF call.isNewVersion /\ Truthy(call.latestVersion)
                   THEN /\ messageBoxes' = Append(messageBoxes,
                               [downloadUrl |-> call.downloadUrl,
                                latestVersion |-> call.latestVersion])
                        /\ uiMessages' = <<>>
                   ELSE /\ uiMessages' = IF call.manual
                                         THEN <<"You are using the latest version">>
                                         ELSE <<>>
                        /\ UNCHANGED messageBoxes
    /\ pendingCalls' = Tail(pendingCalls)
    /\ out' = Silent("_onUpdateCheckComplete")
    /\ UNCHANGED <<_updateDownloadInProgress, threads, pluginVars, logVars, dialogVars>>

\* downloadAndInstallUpdate(downloadUrl, latestVersion)
downloadAndInstallUpdate(downloadUrl, latestVersion) ==
    IF _updateDownloadInProgress
    THEN /\ uiMessages' = <<"update download is already in progress">>
         /\ UNCHANGED <<_updateDownloadInProgress, threads>>
    ELSE IF ~Truthy(downloadUrl)
         THEN /\ uiMessages' = <<"no .nvda-addon package is available">>
              /\ UNCHANGED <<_updateDownloadInProgress, threads>>
         ELSE /\ uiMessages' = <<"Downloading update">>
              /\ _updateDownloadInProgress' = TRUE
              /\ threads' = Append(threads, DownloadWorker(downloadUrl, latestVersion))

\* The innermost gui.messageBox returns answer, and its _onUpdateCheckComplete
\* runs to its end.
messageBoxReturns(answer) ==
    /\ messageBoxes # <<>>
    /\ LET box == messageBoxes[Len(messageBoxes)]
       IN  IF answer = "YES"
           THEN downloadAndInstallUpdate(box.downloadUrl, box.latestVersion)
           ELSE /\ uiMessages' = <<>>
                /\ UNCHANGED <<_updateDownloadInProgress, threads>>
    /\ messageBoxes' = SubSeq(messageBoxes, 1, Len(messageBoxes) - 1)
    /\ out' = Silent("messageBoxReturns")
    /\ UNCHANGED <<_updateCheckInProgress, pendingCalls, pluginVars, logVars, dialogVars>>

\* _downloadAndInstallUpdateWorker in the i-th thread, with what its try
\* block left. The thread ends with its wx.CallAfter.
_downloadAndInstallUpdateWorker(i, outcome) ==
    /\ threads[i].target = "_downloadAndInstallUpdateWorker"
    /\ threads' = RemoveAt(threads, i)
    /\ pendingCalls' = Append(pendingCalls,
           PostedCall("_onUpdateDownloadComplete", FALSE, None, None, FALSE,
                      outcome.errorMessage, outcome.downloadedPath))
    /\ UNCHANGED <<_updateCheckInProgress, _updateDownloadInProgress, messageBoxes,
                   uiMessages, out, pluginVars, logVars, dialogVars>>

\* _onUpdateDownloadComplete, called by the toolkit with the arguments posted
\* first. isfile is what os.path.isfile(downloadedPath) returns, canInstall
\* whether the host has addonGui.handleRemoteAddonInstall, which is then left
\* to install the package.
_onUpdateDownloadComplete(isfile, canInstall) ==
    /\ pendingCalls # <<>>
    /\ Head(pendingCalls).fn = "_onUpdateDownloadComplete"
    /\ LET call == Head(pendingCalls)
       IN  /\ _updateDownloadInProgress' = FALSE
           /\ uiMessages' =
                 IF Truthy(call.errorMessage) THEN <<"update download failed">>
                 ELSE IF ~Truthy(call.downloadedPath) \/ ~isfile
                      THEN <<"update package could not be prepared">>
                      ELSE IF canInstall THEN <<"Installing update">>
                           ELSE <<"Installing update",
                                  "Automatic install is not available">>
    /\ pendingCalls' = Tail(pendingCalls)
    /\ out' = Silent("_onUpdateDownloadComplete")
    /\ UNCHANGED <<_updateCheckInProgress, threads, messageBoxes, pluginVars, logVars,
                   dialogVars>>

\* ------------------------------------------------------------- specifications

\* What the user types into the search field in the model.
SearchValues == {<<>>, <<"B">>, <<"z">>}

\* The rows a view can have.
RowIndices == 0..(Max(MaxCapacity, DialogCapacity) - 1)

\* The host speaks a sequence, while the bounds leave room for it.
Speak ==
    /\ Len(pushLog) + Len(eventQueue) < MaxPushes
    /\ Len(eventQueue) < MaxQueue
    /\ \E sequence \in SpeechSequences : mySpeak(sequence)

SpeakDialog ==
    /\ Len(pushLog) + Len(eventQueue) < DialogMaxPushes
    /\ Len(eventQueue) < DialogMaxQueue
    /\ \E sequence \in SpeechSequences : mySpeak(sequence)

\* The values of the configuration key postCopyAction the runs draw from: no
\* feedback, and both kinds of feedback.
PostCopyChoices == {POST_COPY_NOTHING, POST_COPY_BOTH}

\* The configured action is read only after a copy that succeeded.
CopyLast ==
    \E trimStart \in BOOLEAN, trimEnd \in BOOLEAN :
        \/ \E postCopyAction \in PostCopyChoices :
               script_copyLast(trimStart, trimEnd, postCopyAction, TRUE)
        \/ script_copyLast(trimStart, trimEnd, POST_COPY_NOTHING, FALSE)

PrevString == \E beepBoundaryPanning \in BOOLEAN : script_prevString(beepBoundaryPanning)

NextString == \E beepBoundaryPanning \in BOOLEAN : script_nextString(beepBoundaryPanning)

ShowHistoryDialog == \E selectEvent \in BOOLEAN : script_showHistoryDialog(selectEvent)

Search == \E value \in SearchValues, selectEvent \in BOOLEAN : onSearch(value, selectEvent)

FocusRow == \E index \in RowIndices : focusRow(index)

\* Whether the list control has a row index.
IsRow(index) == index \in 0..(Len(historyList) - 1)

\* The toolkit reports the selection of a row of the list.
Select == \E index \in RowIndices : IsRow(index) /\ onSelect(index)

\* The toolkit reports the deselection of a row of the list.
Deselect == \E index \in RowIndices : IsRow(index) /\ onDeselect(index)

\* An item-selected event that names a row the list no longer has: an event
\* for a longer list that is handled after doSearch has rebuilt the list.
StaleSelect == \E index \in RowIndices : ~IsRow(index) /\ onSelect(index)

\* The same for an item-deselected event.
StaleDeselect == \E index \in RowIndices : ~IsRow(index) /\ onDeselect(index)

Copy ==
    \/ \E postCopyAction \in PostCopyChoices : onCopy(postCopyAction, TRUE)
    \/ onCopy(POST_COPY_NOTHING, FALSE)

CopyAll ==
    \/ \E postCopyAction \in PostCopyChoices : onCopyAll(postCopyAction, TRUE)
    \/ onCopyAll(POST_COPY_NOTHING, FALSE)

Refresh == \E selectEvent \in BOOLEAN : onRefresh(selectEvent)

Init == Constructed(MIN_HISTORY_ENTRIES..MaxCapacity, {FALSE})

\* The add-on with its scripts; of the dialog, what reaches the plugin's state.
Next ==
    \/ Speak
    \/ append_to_history
    \/ CopyLast
    \/ PrevString
    \/ NextString
    \/ script_startRecording
    \/ script_stopRecording
    \/ ShowHistoryDialog
    \/ onClear
    \/ onClose

Spec == Init /\ [][Next]_vars

\* The dialog over a history that keeps receiving speech.
NextDialog ==
    \/ SpeakDialog
    \/ append_to_history
    \/ ShowHistoryDialog
    \/ Search
    \/ FocusRow
    \/ Select
    \/ Deselect
    \/ Copy
    \/ CopyAll
    \/ Refresh
    \/ onClear
    \/ onClose

InitDialog == Constructed({DialogCapacity}, {FALSE})

SpecDialog == InitDialog /\ [][NextDialog]_vars

\* The dialog when the handlers also receive events for rows that are gone.
NextStale ==
    \/ NextDialog
    \/ StaleSelect
    \/ StaleDeselect

SpecStale == InitDialog /\ [][NextStale]_vars

\* The user asks for an update check, while the bounds leave room for the
\* thread and for the prompt the check may end with.
CheckForUpdates ==
    /\ Len(threads) < MaxThreads
    /\ Len(messageBoxes) < MaxPrompts
    /\ onCheckForUpdatesButton

\* A worker thread runs to its end.
CheckWorkerRuns ==
    \E i \in 1..Len(threads), outcome \in CheckOutcomes : _checkForUpdatesWorker(i, outcome)

DownloadWorkerRuns ==
    \E i \in 1..Len(threads), outcome \in DownloadOutcomes :
        _downloadAndInstallUpdateWorker(i, outcome)

\* The user answers the innermost prompt.
MessageBoxReturns ==
    /\ Len(threads) < MaxThreads
    /\ \E answer \in {"YES", "NO"} : messageBoxReturns(answer)

UpdateDownloadComplete ==
    \E isfile \in BOOLEAN, canInstall \in BOOLEAN : _onUpdateDownloadComplete(isfile, canInstall)

\* The update check and download, with the check at start on or off.
NextUpdate ==
    \/ CheckForUpdates
    \/ CheckWorkerRuns
    \/ _onUpdateCheckComplete
    \/ MessageBoxReturns
    \/ DownloadWorkerRuns
    \/ UpdateDownloadComplete

InitUpdate == Constructed({MIN_HISTORY_ENTRIES}, BOOLEAN)

SpecUpdate == InitUpdate /\ [][NextUpdate]_vars

\* The same when every started thread gets to run and the toolkit's event
\* loop makes every posted call.
SpecUpdateFair ==
    /\ SpecUpdate
    /\ WF_vars(CheckWorkerRuns)
    /\ WF_vars(DownloadWorkerRuns)
    /\ WF_vars(_onUpdateCheckComplete)
    /\ WF_vars(UpdateDownloadComplete)

\* --------------------------------------------------------------- properties

\* The texts of the sequences appended after the first n of pushLog, in order.
TextsAfter(n) == [i \in 1..(Len(pushLog) - n) |-> getSequenceText(pushLog[n + i])]

\* C1: the history never holds more than maxHistoryLength entries, and after n
\* appends without a clear in between it holds the min(n, maxHistoryLength)
\* sequences appended last, the newest first (each without its
\* FocusLossCancellableSpeechCommand items, which append_to_history removes).
C1_HistoryHoldsNewest ==
    /\ Len(_history) <= maxHistoryLength
    /\ Len(_history) = Min(Len(pushLog), maxHistoryLength)
    /\ \A i \in 1..Len(_history) :
           _history[i] = WithoutFocusLossCommands(pushLog[Len(pushLog) + 1 - i])

\* More sequences were appended than the history holds, and the two newest
\* entries differ.
C1_Witness ==
    /\ Len(pushLog) > maxHistoryLength
    /\ maxHistoryLength >= 2
    /\ _history[1] # _history[2]

\* C2: the cursor is 0 while the history is empty and a position of the
\* history otherwise, in every reachable state; and every append_to_history
\* leaves it at 0.
C2_CursorInRange ==
    /\ [](IF _history = <<>>
          THEN history_pos = 0
          ELSE history_pos \in 0..(Len(_history) - 1))
    /\ [][append_to_history => history_pos' = 0]_vars

\* An append that dropped the oldest entry has just run, and the cursor is 0.
C2_Witness ==
    /\ out.op = "append_to_history"
    /\ Len(pushLog) > maxHistoryLength
    /\ history_pos = 0

\* C3: on a history of N > 0 entries, script_prevString signals the oldest end
\* exactly when the cursor is N - 1, and then leaves the cursor there;
\* otherwise it moves the cursor up by one. script_nextString signals the
\* newest end exactly when the cursor is 0, and then leaves it there; otherwise
\* it moves the cursor down by one. (So from cursor 0 the first N - 1 calls of
\* script_prevString move without a signal and the Nth signals the oldest end.)
C3_BoundaryExactlyAtEnds ==
    [][/\ (_history # <<>> /\ PrevString) =>
            IF history_pos = Len(_history) - 1
            THEN out'.boundary = "oldest" /\ history_pos' = Len(_history) - 1
            ELSE out'.boundary = "none" /\ history_pos' = history_pos + 1
       /\ (_history # <<>> /\ NextString) =>
            IF history_pos = 0
            THEN out'.boundary = "newest" /\ history_pos' = 0
            ELSE out'.boundary = "none" /\ history_pos' = history_pos - 1]_vars

\* script_prevString has signalled the oldest end of a history of at least two
\* entries, which the cursor reached.
C3_Witness ==
    /\ out.op = "script_prevString"
    /\ out.boundary = "oldest"
    /\ Len(_history) >= 2
    /\ history_pos = Len(_history) - 1

\* C4 as the specification states it: a call that signals an end of the
\* history reads no entry.
C4_NoEntryReadAtBoundary == out.boundary # "none" => out.spoken = <<>>

\* C4, amended: a script_prevString or script_nextString that would leave the
\* history keeps the cursor, beeps for the end it was told (the oldest end
\* for script_prevString, the newest for script_nextString; the two tones
\* differ only when the boundary beeps are panned) and speaks the entry at
\* the cursor once more; and every call on a history that is not empty speaks
\* exactly the entry the cursor ends on.
C4_BoundaryRereadsEntry ==
    [][/\ \A panning \in BOOLEAN :
            (_history # <<>> /\ script_prevString(panning)
                /\ history_pos = Len(_history) - 1) =>
                /\ history_pos' = history_pos
                /\ out'.boundary = "oldest"
                /\ out'.beeps =
                      <<Beep(BOUNDARY_BEEP_FREQUENCY, BOUNDARY_BEEP_DURATION,
                             IF panning THEN 100 ELSE DefaultBeepVolume,
                             IF panning THEN 0 ELSE DefaultBeepVolume)>>
       /\ \A panning \in BOOLEAN :
            (_history # <<>> /\ script_nextString(panning) /\ history_pos = 0) =>
                /\ history_pos' = history_pos
                /\ out'.boundary = "newest"
                /\ out'.beeps =
                      <<Beep(BOUNDARY_BEEP_FREQUENCY, BOUNDARY_BEEP_DURATION,
                             IF panning THEN 0 ELSE DefaultBeepVolume,
                             IF panning THEN 100 ELSE DefaultBeepVolume)>>
       /\ (_history # <<>> /\ (PrevString \/ NextString)) =>
            /\ out'.spoken = <<_history[history_pos' + 1]>>
            /\ out'.boundary = "none" => out'.beeps = <<>>]_vars

\* script_nextString has signalled the newest end of a history of at least two
\* entries and has spoken the newest entry.
C4_Witness ==
    /\ out.op = "script_nextString"
    /\ out.boundary = "newest"
    /\ Len(_history) >= 2
    /\ out.spoken = <<_history[1]>>

\* C5: a script_stopRecording that ends a recording produces the texts of the
\* sequences appended since the recording started, joined by newlines in the
\* order they were appended, however many of them the history still holds;
\* after it nothing is accumulated and no recording runs.
C5_StopYieldsTextsInPushOrder ==
    [][(_recording /\ script_stopRecording) =>
          /\ out'.recordedText = join(NEWLINE, TextsAfter(startedAt))
          /\ out'.copied = IF out'.recordedText = <<>> THEN <<>>
                           ELSE <<out'.recordedText>>
          /\ _recorded' = <<>>
          /\ ~_recording']_vars

\* A recording of three appends, more than the history holds, was stopped and
\* produced the three texts, oldest first.
C5_Witness ==
    /\ out.op = "script_stopRecording"
    /\ maxHistoryLength < 3
    /\ out.recordedText =
          join(NEWLINE, <<getSequenceText(SeqPlain), getSequenceText(SeqMixed),
                          getSequenceText(SeqMixed)>>)

\* C6: every script_startRecording that starts a recording leaves the
\* accumulator empty, whatever came before; and while a recording runs the
\* accumulator holds one text for each sequence appended since it started, so
\* nothing older reaches the text of the next script_stopRecording.
C6_StartFindsNothingRecorded ==
    /\ [][(~_recording /\ script_startRecording) =>
             (_recording' /\ _recorded' = <<>>)]_vars
    /\ [](_recording => _recorded = TextsAfter(startedAt))

\* A recording has just started after sequences were appended.
C6_Witness ==
    /\ out.op = "script_startRecording"
    /\ _recording
    /\ _recorded = <<>>
    /\ startedAt >= 2

\* C7: onClear, the one caller of clearHistory, leaves the history and the
\* accumulator empty and the cursor at 0 from every state; and a
\* script_stopRecording that ends a recording with nothing appended since the
\* clear produces no text and writes nothing to the clipboard.
C7_ClearEmptiesEverything ==
    [][/\ onClear => (_history' = <<>> /\ history_pos' = 0 /\ _recorded' = <<>>)
       /\ (_recording /\ pushLog = <<>> /\ script_stopRecording) =>
             (out'.recordedText = <<>> /\ out'.copied = <<>>)]_vars

\* onClear has just run during a recording, with the dialog now closed.
C7_Witness ==
    /\ out.op = "onClear"
    /\ _recording
    /\ _history = <<>>
    /\ _recorded = <<>>
    /\ history_pos = 0

\* Whether query occurs in item when letter case is ignored, character by
\* character.
OccursIgnoringCase(query, item) ==
    \E offset \in 0..(Len(item) - Len(query)) :
        \A k \in 1..Len(query) : LowerChar(item[offset + k]) = LowerChar(query[k])

\* The elements of a finite set of integers, in ascending order.
Ascending(S) ==
    CHOOSE s \in [1..Cardinality(S) -> S] :
        \A i, j \in 1..Cardinality(S) : i < j => s[i] < s[j]

\* The items of hist in which query occurs when case is ignored, in the order
\* of hist.
MatchingItems(hist, query) ==
    LET kept == Ascending({i \in 1..Len(hist) : OccursIgnoringCase(query, hist[i])})
    IN  [k \in 1..Len(kept) |-> hist[kept[k]]]

C9_SelectionTextAscending ==
    dialogOpen =>
        LET valid == Ascending({i \in selection : i < Len(searchHistory)})
        IN  /\ currentTextElement =
                   join(NEWLINE, [k \in 1..Len(valid) |-> searchHistory[valid[k] + 1]])
            /\ selection = {} => currentTextElement = <<>>

\* Two different items are selected, and the text holds them in index order.
C9_Witness ==
    /\ dialogOpen
    /\ selection = {0, 1}
    /\ Len(searchHistory) >= 2
    /\ searchHistory[1] # searchHistory[2]
    /\ currentTextElement = searchHistory[1] \o NEWLINE \o searchHistory[2]

\* The index the dialog remembers for a query: 0 for one it has not left yet.
Remembered(query) == IF query \in DOMAIN searches THEN searches[query] ELSE 0

\* C10: an onSearch that changes the query remembers the focused index (0
\* when no row has focus) under the query it leaves and changes no other
\* remembered index; it focuses the index remembered for the query it enters,
\* or the last row of the view when the view has fewer rows, and no row when
\* the view is empty. Nothing but onSearch changes the remembered indices of
\* a dialog that stays open.
C10_FocusRememberedPerQuery ==
    [][/\ \A value \in SearchValues, selectEvent \in BOOLEAN :
            (onSearch(value, selectEvent) /\ lower(value) # curSearch) =>
                /\ curSearch' = lower(value)
                /\ DOMAIN searches' = (DOMAIN searches) \cup {curSearch}
                /\ searches'[curSearch] = IF focusedItem < 0 THEN 0 ELSE focusedItem
                /\ \A q \in (DOMAIN searches) \ {curSearch} : searches'[q] = searches[q]
                /\ focusedItem' =
                      IF searchHistory' = <<>> THEN -1
                      ELSE Min(Remembered(lower(value)), Len(searchHistory') - 1)
       /\ (dialogOpen /\ dialogOpen' /\ searches' # searches) => Search]_vars

\* The dialog is back at a query it left with the second row focused; the
\* view has one row now, and that row has the focus.
C10_Witness ==
    /\ out.op = "onSearch"
    /\ curSearch \in DOMAIN searches
    /\ searches[curSearch] = 1
    /\ Len(searchHistory) = 1
    /\ focusedItem = 0

\* C11: onSelect and onDeselect for an index outside [0, len(searchHistory))
\* leave the selection as it was, so that the selection holds indices of the
\* filtered view only.
C11_OutOfRangeIsNoOp ==
    /\ [](dialogOpen => selection \subseteq 0..(Len(searchHistory) - 1))
    /\ [][\A index \in RowIndices :
            (index >= Len(searchHistory) /\ (onSelect(index) \/ onDeselect(index))) =>
                selection' = selection]_vars

\* onSelect has handled an event for a row the view does not have, and the
\* index is in the selection.
C11_Witness ==
    /\ out.op = "onSelect"
    /\ \E index \in selection : index >= Len(searchHistory)

\* The texts of the live history, newest first.
LiveTexts == [i \in 1..Len(_history) |-> getSequenceText(_history[i])]

\* C13: speech that reaches the add-on after the dialog took its snapshot
\* changes neither the snapshot nor the filtered view nor the text of the
\* selection; searches, selections and copies work on the snapshot alone;
\* the snapshot of an open dialog changes only when the dialog is shown
\* again or refreshed, and it is then the texts of the live history in the
\* order of the history.
C13_DialogWorksOnSnapshot ==
    [][/\ ((\E sequence \in SpeechSequences : mySpeak(sequence)) \/ append_to_history) =>
            UNCHANGED <<history, searchHistory, historyList, currentTextElement>>
       /\ (Search \/ FocusRow \/ Select \/ Deselect \/ Copy \/ CopyAll) =>
            history' = history
       /\ \A value \in SearchValues, selectEvent \in BOOLEAN :
            (onSearch(value, selectEvent) /\ lower(value) # curSearch) =>
                searchHistory' = MatchingItems(history, lower(value))
       /\ (Select \/ Deselect) =>
            LET chosen == Ascending(selection')
                view == MatchingItems(history, curSearch)
            IN  currentTextElement' =
                    join(NEWLINE, [k \in 1..Len(chosen) |-> view[chosen[k] + 1]])
       /\ Copy => out'.copied \in {<<>>, <<currentTextElement>>}
       /\ CopyAll => out'.copied \in {<<>>, <<join(NEWLINE, MatchingItems(history, curSearch))>>}
       /\ (dialogOpen /\ dialogOpen' /\ history' # history) => (ShowHistoryDialog \/ Refresh)
       /\ (ShowHistoryDialog \/ Refresh) => history' = LiveTexts]_vars

\* The history has received speech since the snapshot was taken, and a copy
\* of all rows has put the texts of the snapshot on the clipboard.
C13_Witness ==
    /\ dialogOpen
    /\ history # <<>>
    /\ Len(_history) > Len(history)
    /\ out.op = "onCopyAll"
    /\ out.copied = <<join(NEWLINE, history)>>

\* C14: on an empty history script_copyLast, script_prevString and
\* script_nextString only report that there are no items: no entry is spoken,
\* nothing is copied, no boundary is signalled, and the history, the cursor
\* (which is 0) and the state of the recording stay as they are.
C14_EmptyHistoryOnlyReported ==
    [][(_history = <<>> /\ (CopyLast \/ PrevString \/ NextString)) =>
          /\ out'.spoken = <<Message("No history items.")>>
          /\ out'.copied = <<>>
          /\ out'.beeps = <<>>
          /\ out'.boundary = "none"
          /\ history_pos = 0
          /\ UNCHANGED <<_history, history_pos, _recorded, _recording, eventQueue>>]_vars

\* A review script has run on an empty history while a recording is on.
C14_Witness ==
    /\ _history = <<>>
    /\ _recording
    /\ out.op \in {"script_copyLast", "script_prevString", "script_nextString"}
    /\ out.spoken = <<Message("No history items.")>>

\* Whether the text of a sequence is empty once whitespace is trimmed.
Blank(sequence) == strip(getSequenceText(sequence)) = <<>>

\* C16: a sequence gets into the history only from mySpeak, and only when
\* its trimmed text is not empty: what the review scripts read back, the copy
\* script and the notices of the scripts queue nothing, add nothing to the
\* history or to the recorded texts and do not reset the cursor; speech with
\* no text or only whitespace leaves history, cursor and recorded texts (and
\* the queue) as they are; no stored sequence has an empty trimmed text.
C16_OnlyHeardTextIsStored ==
    /\ [](/\ \A i \in 1..Len(_history) : ~Blank(_history[i])
          /\ \A i \in 1..Len(eventQueue) : ~Blank(eventQueue[i]))
    /\ [][ /\ (CopyLast \/ PrevString \/ NextString
                 \/ script_startRecording \/ script_stopRecording) =>
                /\ UNCHANGED <<_history, eventQueue, pushLog>>
                /\ Len(_recorded') <= Len(_recorded)
                /\ history_pos' # history_pos => (PrevString \/ NextString)
                /\ (history_pos' = 0 /\ history_pos # 0) =>
                        (NextString /\ history_pos = 1)
           /\ \A sequence \in SpeechSequences :
                (mySpeak(sequence) /\ Blank(sequence)) =>
                    UNCHANGED <<_history, history_pos, _recorded, eventQueue, pushLog>>
           /\ eventQueue' # eventQueue =>
                \/ append_to_history
                \/ \E sequence \in SpeechSequences :
                      /\ mySpeak(sequence)
                      /\ ~Blank(sequence)
                      /\ eventQueue' = Append(eventQueue, sequence)
           /\ (Len(_history') > Len(_history) \/ Len(_recorded') > Len(_recorded)) =>
                append_to_history]_vars

\* A review script has read the older of two items back during a recording:
\* nothing is queued, and history, recorded texts and cursor show no third
\* item.
C16_Witness ==
    /\ out.op = "script_prevString"
    /\ Len(_history) = 2
    /\ history_pos = 1
    /\ out.spoken = <<_history[2]>>
    /\ _recording
    /\ Len(_recorded) = 2
    /\ Len(pushLog) = 2
    /\ eventQueue = <<>>

\* How many threads run target and how many calls of fn are posted.
Running(target) == Cardinality({i \in 1..Len(threads) : threads[i].target = target})
Posted(fn) == Cardinality({i \in 1..Len(pendingCalls) : pendingCalls[i].fn = fn})

\* C12: at any time at most one update check and at most one update download
\* is under way, counting a worker thread and the completion call it has
\* posted, and only while the flag of its kind is set; a request made while
\* the flag of its kind is set starts no thread, posts nothing and changes no
\* flag: it is answered with the notice that one is already in progress.
C12_OneCheckAndOneDownload ==
    /\ [](/\ Running("_checkForUpdatesWorker") + Posted("_onUpdateCheckComplete")
                = IF _updateCheckInProgress THEN 1 ELSE 0
          /\ Running("_downloadAndInstallUpdateWorker") + Posted("_onUpdateDownloadComplete")
                = IF _updateDownloadInProgress THEN 1 ELSE 0)
    /\ [][ /\ (_updateCheckInProgress /\ onCheckForUpdatesButton) =>
                /\ UNCHANGED <<threads, pendingCalls, _updateCheckInProgress,
                               _updateDownloadInProgress>>
                /\ uiMessages' = <<"update check is already in progress">>
           /\ (_updateDownloadInProgress /\ messageBoxReturns("YES")) =>
                /\ UNCHANGED <<threads, pendingCalls, _updateCheckInProgress,
                               _updateDownloadInProgress>>
                /\ uiMessages' = <<"update download is already in progress">>]_vars

\* A second download was asked for while the thread of the first was still
\* running, and it was turned down.
C12_Witness ==
    /\ out.op = "messageBoxReturns"
    /\ uiMessages = <<"update download is already in progress">>
    /\ _updateDownloadInProgress
    /\ Running("_downloadAndInstallUpdateWorker") = 1

\* C15: when started threads get to run and posted calls get made, every
\* update check and every update download that was accepted comes to its
\* end, whatever the fetch did: the worker posts its completion call, the
\* call clears the flag of its kind, and once the flag is clear the next
\* request of that kind is accepted and starts a thread.
C15_EveryUpdateCompletes ==
    /\ (Running("_checkForUpdatesWorker") = 1) ~> (Posted("_onUpdateCheckComplete") = 1)
    /\ (Running("_downloadAndInstallUpdateWorker") = 1)
            ~> (Posted("_onUpdateDownloadComplete") = 1)
    /\ _updateCheckInProgress ~> ~_updateCheckInProgress
    /\ _updateDownloadInProgress ~> ~_updateDownloadInProgress
    /\ [][ /\ (~_updateCheckInProgress /\ onCheckForUpdatesButton) =>
                /\ _updateCheckInProgress'
                /\ threads' = Append(threads, CheckWorker(TRUE))
           /\ (/\ ~_updateDownloadInProgress
               /\ messageBoxes # <<>>
               /\ messageBoxes[Len(messageBoxes)].downloadUrl = "url"
               /\ messageBoxReturns("YES")) =>
                /\ _updateDownloadInProgress'
                /\ Len(threads') = Len(threads) + 1]_vars

\* A check asked for by the user has failed in its fetch, and its completion
\* call has cleared the flag and reported the failure.
C15_Witness ==
    /\ out.op = "_onUpdateCheckComplete"
    /\ uiMessages = <<"Could not check for updates">>
    /\ ~_updateCheckInProgress
    /\ Running("_checkForUpdatesWorker") = 0

====
